---- MODULE Spec2Model ----
(***************************************************************************)
(* The ForceGraph scene of repulsive-rects-ts: the boxes (nodes), the      *)
(* index-based link table, the tool state machine driven by the pointer    *)
(* handlers, and the per-frame force simulation of draw().                 *)
(*                                                                         *)
(* Modelled from src/unnamed/part_000 (the ForceGraph scene with the four  *)
(* tools and the shuffle button) and src/unnamed/part_001 (the main loop). *)
(*                                                                         *)
(* Numbers.  Coordinates are JavaScript doubles in the source.  Here a     *)
(* coordinate is an integer number of pixels or the value NaN; box sizes   *)
(* are even integers so that w/2 and h/2 are exact.  A force is an integer *)
(* number of px/s, every quotient truncated towards zero.  What is kept    *)
(* exactly: a zero force leaves a coordinate unchanged, 0/0 is NaN, NaN    *)
(* propagates through +, *, /, Math.min and Math.max, and every comparison *)
(* with NaN is false.                                                      *)
(***************************************************************************)
EXTENDS Integers, Sequences, FiniteSets, TLC

VARIABLES
    boxes,          \* this.boxes: sequence of Box records (index i of the source is i+1 here)
    links,          \* this.links: sequence of <<a, b>>, 0-based box indices as in the source
    activeTool,     \* this.activeTool
    phantomBox,     \* this.phantomBox: Some(Box record) or Undefined
    hovered,        \* this.hovered: Some(id of a Box object) or Undefined
    dragging,       \* this.dragging: Some(id of a Box object) or Undefined
    draggingStart,  \* this.draggingStart
    linkAction,     \* this.linkAction: Some([start |-> id, add |-> BOOLEAN]) or Undefined
    btnHovered,     \* buttons[i].hovered, i = 0..4 at position i+1
    btnPressed,     \* buttons[i].pressed
    lastTime,       \* this.lastTime, in milliseconds
    canvas,         \* [width, height] of this.canvas
    frames,         \* number of animation frames delivered so far (bounds the run)
    steps,          \* number of pointer events that changed the scene (bounds the run)
    last            \* the handler that changed the scene last (history)

\* the fields of the scene
scene == <<boxes, links, activeTool, phantomBox, hovered, dragging, draggingStart,
           linkAction, btnHovered, btnPressed, lastTime, canvas>>

vars == <<scene, frames, steps, last>>

\* ------------------------------------------------------------------ bounds

\* How many entries of the constructor's box table the scene starts with.
InitBoxes == 4
\* A preview box is not added to a table of this many boxes.
MaxBoxes == 5
\* A link gesture that would grow the link table beyond this is not taken.
MaxLinks == 6
\* Animation frames per run.
MaxFrames == 1
\* Pointer events per run that change the scene.
MaxSteps == 3

\* ------------------------------------------------------------ JS numbers

\* The not-a-number value of a coordinate (outside every pixel range used).
NaN == -1000000000

\* An optional value (a field declared with ?) is the empty sequence when
\* undefined and <<v>> when set; object references hold the object's id.
Undefined == <<>>

Some(v) == <<v>>

Val(o) == o[1]

IsNaN(a) == a = NaN

Abs(a) == IF a < 0 THEN -a ELSE a

Sign(a) == IF a < 0 THEN -1 ELSE 1

\* a + b, a - b, a * b on doubles
Add(a, b) == IF IsNaN(a) \/ IsNaN(b) THEN NaN ELSE a + b

Sub(a, b) == IF IsNaN(a) \/ IsNaN(b) THEN NaN ELSE a - b

\* the quotient a / b truncated towards zero; 0/0 and NaN/x are NaN.  The
\* callers divide by a length, and a zero length comes with a zero numerator.
Div(a, b) ==
    IF IsNaN(a) \/ IsNaN(b) \/ b = 0 THEN NaN
    ELSE Sign(a) * Sign(b) * (Abs(a) \div Abs(b))

\* Math.max and Math.min return NaN when an argument is NaN
MathMax(a, b) == IF IsNaN(a) \/ IsNaN(b) THEN NaN ELSE IF a > b THEN a ELSE b

MathMin(a, b) == IF IsNaN(a) \/ IsNaN(b) THEN NaN ELSE IF a < b THEN a ELSE b

RECURSIVE SqrtSearch(_, _, _)
SqrtSearch(n, lo, hi) ==
    IF lo >= hi THEN lo
    ELSE LET mid == (lo + hi + 1) \div 2
         IN  IF mid * mid <= n THEN SqrtSearch(n, mid, hi) ELSE SqrtSearch(n, lo, mid - 1)

\* floor(Math.sqrt(n)) for 0 <= n < 2^30
ISqrt(n) == SqrtSearch(n, 0, 32767)

\* ------------------------------------------------------------- geometry

Point(px, py) == [x |-> px, y |-> py]

\* contains(rect, p) of lib/Canvas: p lies in the rectangle, edges included.
\* A rectangle with a NaN coordinate contains nothing.
contains(r, p) ==
    /\ ~IsNaN(r.x) /\ ~IsNaN(r.y)
    /\ r.x <= p.x /\ p.x <= r.x + r.w
    /\ r.y <= p.y /\ p.y <= r.y + r.h

\* centre(r) and Box.centre
centre(r) == [x |-> Add(r.x, r.w \div 2), y |-> Add(r.y, r.h \div 2)]

\* Box.mass
mass(b) == b.w * b.h

\* new Box(size, text): rect at the origin, not pinned, not hovered.  id is
\* the identity of the object (the source compares boxes with ===).
Box(id, w, h, text) ==
    [id |-> id, x |-> 0, y |-> 0, w |-> w, h |-> h, text |-> text,
     pinned |-> FALSE, hovered |-> FALSE]

\* ---------------------------------------------------------- constructor

\* the box table of the constructor
BOXES ==
    << Box(1, 50, 50, "a"), Box(2, 80, 50, "b"), Box(3, 50, 50, "c"),
       Box(4, 50, 80, "d"), Box(5, 50, 80, "e"), Box(6, 50, 50, "f"),
       Box(7, 80, 50, "g"), Box(8, 50, 50, "h") >>

\* the link table of the constructor
LINKS ==
    << <<0, 1>>, <<0, 2>>, <<1, 2>>, <<1, 3>>, <<3, 4>>, <<4, 5>>, <<4, 6>>, <<5, 6>> >>

\* the rectangles of the five buttons: hand, link, add, remove, shuffle
BUTTONS ==
    << [x |-> 0, y |-> 0,   w |-> 40, h |-> 40],
       [x |-> 0, y |-> 40,  w |-> 40, h |-> 40],
       [x |-> 0, y |-> 80,  w |-> 40, h |-> 40],
       [x |-> 0, y |-> 120, w |-> 40, h |-> 40],
       [x |-> 0, y |-> 160, w |-> 40, h |-> 40] >>

Tools == <<"hand", "link", "add", "remove">>

\* ---------------------------------------------------------------- inputs

\* canvas sizes (window.innerWidth x window.innerHeight)
CanvasSizes == {[width |-> 300, height |-> 200]}

\* Pointer positions.  A button is released in its middle.  On the canvas,
\* with the boxes where Layouts puts them: (100,100) is on box b alone,
\* (140,100) on box d alone, (180,100) on box a and on box c below it.
\* (296,100) is near the right edge, (20,100) is also the middle of a button.
ButtonPoints ==
    {Point(20, 20), Point(20, 60), Point(20, 100), Point(20, 140), Point(20, 180)}

CanvasPoints == {Point(100, 100), Point(140, 100), Point(180, 100)}

DownPoints == CanvasPoints

MovePoints == {Point(20, 100), Point(100, 100), Point(180, 100), Point(296, 100)}

UpPoints == ButtonPoints \cup CanvasPoints

\* Outcomes of the constructor's Math.floor(Math.random() * (canvas - size)),
\* one position per entry of BOXES.
Layouts ==
    { << Point(160, 60), Point(55, 70), Point(175, 65), Point(110, 55),
         Point(240, 10), Point(230, 140), Point(60, 145), Point(5, 5) >> }

\* Values of Math.random() in thousandths, <<for x, for y>>, for the shuffle
\* of the first, second, ... box that is not pinned
RandSeqs ==
    { << <<0, 0>>, <<250, 250>>, <<500, 500>>, <<750, 750>>,
         <<100, 900>>, <<900, 100>>, <<300, 600>>, <<600, 300>> >>,
      << <<100, 100>>, <<900, 100>>, <<100, 900>>, <<900, 900>>,
         <<500, 100>>, <<500, 900>>, <<300, 300>>, <<700, 700>> >> }

\* sizes Math.floor(Math.random() * 50) + 50 of a preview box (even ones)
PhantomSizes == {<<50, 50>>, <<80, 60>>}

\* frame intervals in milliseconds
Deltas == {16, 1000}

\* ------------------------------------------------------------- box table

\* this.boxes[i]
At(bs, i) == bs[i + 1]

\* this.boxes.indexOf(box), -1 when absent
IndexOf(bs, id) ==
    IF \E i \in 1..Len(bs) : bs[i].id = id
    THEN (CHOOSE i \in 1..Len(bs) : bs[i].id = id) - 1
    ELSE -1

\* the boxes with the field f of the object id set to v (a write through a reference)
SetField(bs, id, f, v) ==
    [i \in 1..Len(bs) |-> IF bs[i].id = id THEN [bs[i] EXCEPT ![f] = v] ELSE bs[i]]

\* this.boxes.splice(i, 1)
Splice(bs, i) == SubSeq(bs, 1, i) \o SubSeq(bs, i + 2, Len(bs))

\* link.includes(i)
Includes(link, i) == link[1] = i \/ link[2] = i

\* an id no live object has
FreshId ==
    CHOOSE n \in 1..(MaxBoxes + 9) :
        /\ \A i \in 1..Len(boxes) : boxes[i].id # n
        /\ hovered # Some(n)
        /\ \A m \in 1..(MaxBoxes + 9) :
               ( /\ \A i \in 1..Len(boxes) : boxes[i].id # m
                 /\ hovered # Some(m) ) => n <= m

\* the state after the constructor, for the first InitBoxes entries of the
\* tables (the state the scene is in once the other boxes are removed)
Init ==
    /\ canvas \in CanvasSizes
    /\ \E lay \in Layouts :
           boxes = [i \in 1..InitBoxes |-> [BOXES[i] EXCEPT !.x = lay[i].x, !.y = lay[i].y]]
    /\ links = SelectSeq(LINKS, LAMBDA l : l[1] < InitBoxes /\ l[2] < InitBoxes)
    /\ activeTool = "hand"
    /\ phantomBox = Undefined
    /\ hovered = Undefined
    /\ dragging = Undefined
    /\ draggingStart = Point(0, 0)
    /\ linkAction = Undefined
    /\ btnHovered = [i \in 1..5 |-> FALSE]
    /\ btnPressed = [i \in 1..5 |-> i = 1]
    /\ lastTime = 0
    /\ frames = 0
    /\ steps = 0
    /\ last = "constructor"

\* ------------------------------------------------------------ the scene

\* The fields the pointer handlers write, as one record.
Scene ==
    [boxes |-> boxes, links |-> links, hovered |-> hovered, dragging |-> dragging,
     draggingStart |-> draggingStart, linkAction |-> linkAction]

\* ------------------------------------------------------------ labels

Alphabet ==
    << "a", "b", "c", "d", "e", "f", "g", "h", "i", "j", "k", "l", "m",
       "n", "o", "p", "q", "r", "s", "t", "u", "v", "w", "x", "y", "z" >>

\* text.charCodeAt(0) of a one-letter label
charCodeAt(text) == 96 + (CHOOSE i \in 1..26 : Alphabet[i] = text)

\* String.fromCharCode(code) for the codes of 'a'..'z'
fromCharCode(code) == Alphabet[code - 96]

\* NextLabel from the number of boxes in place of the last box's label
NextLabelFromLength(bs) == Alphabet[(Len(bs) % 26) + 1]

\* the label of the next preview box
NextLabel(bs) ==
    LET currentCode == charCodeAt(IF Len(bs) > 0 THEN bs[Len(bs)].text ELSE "z")
        aCode       == charCodeAt("a")
    IN  fromCharCode(((currentCode - aCode + 1) % 26) + aCode)

\* --------------------------------------------------------- onPointerDown

\* RemoveLinks without the map that moves the indices down
RemoveLinksNoRenumber(ls, boxIdx) ==
    SelectSeq(ls, LAMBDA l : l[1] # boxIdx /\ l[2] # boxIdx)

\* case 'remove': the link table without the links of box boxIdx, the
\* indices above boxIdx moved down by one
RemoveLinks(ls, boxIdx) ==
    LET kept == SelectSeq(ls, LAMBDA l : l[1] # boxIdx /\ l[2] # boxIdx)
    IN  [i \in 1..Len(kept) |->
            << IF kept[i][1] < boxIdx THEN kept[i][1] ELSE kept[i][1] - 1,
               IF kept[i][2] < boxIdx THEN kept[i][2] ELSE kept[i][2] - 1 >>]

\* HandDrag without this.dragging.pinned = true
HandDragNoPin(st, box, p) ==
    [st EXCEPT
        !.draggingStart = Point(p.x - box.x, p.y - box.y),
        !.dragging = Some(box.id),
        !.boxes = SetField(st.boxes, box.id, "hovered", TRUE)]

\* case 'hand' without shift: start dragging box, which pins it
HandDrag(st, box, p) ==
    [st EXCEPT
        !.draggingStart = Point(p.x - box.x, p.y - box.y),
        !.dragging = Some(box.id),
        !.boxes = SetField(SetField(st.boxes, box.id, "hovered", TRUE),
                           box.id, "pinned", TRUE)]

\* case 'link': start a link gesture at box
LinkStart(st, box, shiftKey) ==
    [st EXCEPT
        !.linkAction = Some([start |-> box.id, add |-> ~shiftKey]),
        !.hovered = Undefined,
        !.boxes = SetField(st.boxes, box.id, "hovered", TRUE)]

\* case 'remove': remove box and its links
RemoveBox(st, box) ==
    LET boxIdx == IndexOf(st.boxes, box.id)
    IN  [st EXCEPT
            !.links = RemoveLinks(st.links, boxIdx),
            !.boxes = Splice(st.boxes, boxIdx)]

\* DownSwitch with the break of case 'hand' missing: the hand tool falls
\* through into case 'link'
DownSwitchFallThrough(st, box, tool, shiftKey, p) ==
    CASE tool = "hand"   -> LinkStart(HandDrag(st, box, p), box, shiftKey)
      [] tool = "link"   -> LinkStart(st, box, shiftKey)
      [] tool = "remove" -> RemoveBox(st, box)
      [] OTHER           -> st

\* The body of the switch for a box that contains the pointer (the shift
\* click of the hand tool, which returns, is in DownLoop).
DownSwitch(st, box, tool, shiftKey, p) ==
    CASE tool = "hand"   -> HandDrag(st, box, p)
      [] tool = "link"   -> LinkStart(st, box, shiftKey)
      [] tool = "remove" -> RemoveBox(st, box)
      [] OTHER           -> st

\* DownLoop without the shift branch of case 'hand': a shift click starts a
\* drag like any other press
RECURSIVE DownLoopShiftDrags(_, _, _, _, _)
DownLoopShiftDrags(st, i, tool, shiftKey, p) ==
    IF i >= Len(st.boxes) THEN st
    ELSE LET box == At(st.boxes, i)
         IN  IF ~contains(box, p) THEN DownLoopShiftDrags(st, i + 1, tool, shiftKey, p)
             ELSE DownLoopShiftDrags(DownSwitch(st, box, tool, shiftKey, p),
                                     i + 1, tool, shiftKey, p)

\* for (let box of this.boxes) from array index i on.  The break statements
\* leave the switch, not the loop: the loop goes on to the boxes after a
\* hit, and after a splice the iterator's index still moves on by one.
RECURSIVE DownLoop(_, _, _, _, _)
DownLoop(st, i, tool, shiftKey, p) ==
    IF i >= Len(st.boxes) THEN st
    ELSE LET box == At(st.boxes, i)
         IN  IF ~contains(box, p) THEN DownLoop(st, i + 1, tool, shiftKey, p)
             ELSE IF tool = "hand" /\ shiftKey
                  THEN [st EXCEPT !.boxes = SetField(st.boxes, box.id, "pinned", ~box.pinned)]
                  ELSE DownLoop(DownSwitch(st, box, tool, shiftKey, p), i + 1, tool, shiftKey, p)

\* PointerDownResult without the early return of a gesture in progress
PointerDownNoGuard(st, tool, shiftKey, p) == DownLoop(st, 0, tool, shiftKey, p)

\* if (this.dragging || this.linkAction) return; then the loop over the boxes
PointerDownResult(st, tool, shiftKey, p) ==
    IF st.dragging # Undefined \/ st.linkAction # Undefined THEN st
    ELSE DownLoop(st, 0, tool, shiftKey, p)

SetScene(st) ==
    /\ boxes' = st.boxes
    /\ links' = st.links
    /\ hovered' = st.hovered
    /\ dragging' = st.dragging
    /\ draggingStart' = st.draggingStart
    /\ linkAction' = st.linkAction

onPointerDown(shiftKey, p) ==
    /\ SetScene(PointerDownResult(Scene, activeTool, shiftKey, p))
    /\ UNCHANGED <<activeTool, phantomBox, btnHovered, btnPressed, lastTime, canvas, frames>>

\* ----------------------------------------------------------- onPointerUp

\* for (let link of this.links) over the array the loop started on, from
\* position i.  found is foundDuplicate, which every iteration overwrites;
\* removed holds the positions of the elements that
\* this.links.filter(a => a !== link) has taken out of this.links so far.
RECURSIVE DuplicateLoop(_, _, _, _, _, _, _)
DuplicateLoop(orig, i, removed, found, firstIdx, secondIdx, add) ==
    IF i > Len(orig)
    THEN [links |-> SelectSeq([j \in 1..Len(orig) |-> <<j, orig[j]>>],
                              LAMBDA e : e[1] \notin removed),
          foundDuplicate |-> found]
    ELSE LET f == Includes(orig[i], firstIdx) /\ Includes(orig[i], secondIdx)
         IN  DuplicateLoop(orig, i + 1,
                           IF f /\ ~add THEN removed \cup {i} ELSE removed,
                           f, firstIdx, secondIdx, add)

\* the link gesture from box firstIdx resolved on box secondIdx
ResolveLink(ls, firstIdx, secondIdx, add) ==
    LET r    == DuplicateLoop(ls, 1, {}, FALSE, firstIdx, secondIdx, add)
        left == [j \in 1..Len(r.links) |-> r.links[j][2]]
    IN  IF ~r.foundDuplicate /\ add
        THEN Append(left, <<firstIdx, secondIdx>>)
        ELSE left

\* LinkLoop without the test for the gesture's start box
RECURSIVE LinkLoopNoStartTest(_, _, _, _, _, _)
LinkLoopNoStartTest(ls, bs, i, start, add, p) ==
    IF i >= Len(bs) THEN ls
    ELSE LET box == At(bs, i)
         IN  IF ~contains(box, p) THEN LinkLoopNoStartTest(ls, bs, i + 1, start, add, p)
             ELSE LinkLoopNoStartTest(
                      ResolveLink(ls, IndexOf(bs, start), IndexOf(bs, box.id), add),
                      bs, i + 1, start, add, p)

\* for (let box of this.boxes) of the link gesture, from array index i on;
\* the loop ends at the gesture's start box
RECURSIVE LinkLoop(_, _, _, _, _, _)
LinkLoop(ls, bs, i, start, add, p) ==
    IF i >= Len(bs) THEN ls
    ELSE LET box == At(bs, i)
         IN  IF ~contains(box, p) THEN LinkLoop(ls, bs, i + 1, start, add, p)
             ELSE IF box.id = start THEN ls
             ELSE LinkLoop(ResolveLink(ls, IndexOf(bs, start), IndexOf(bs, box.id), add),
                           bs, i + 1, start, add, p)

\* the first button whose rectangle contains p (1..5), 0 when none does
ButtonAt(p) ==
    IF \E i \in 1..5 : contains(BUTTONS[i], p)
    THEN CHOOSE i \in 1..5 :
             contains(BUTTONS[i], p) /\ \A j \in 1..(i - 1) : ~contains(BUTTONS[j], p)
    ELSE 0

\* randPoint(box.rect) of the shuffle button for the Math.random() values r
randPoint(b, r) ==
    Point(((r[1] * (canvas.width - b.w * 2)) \div 1000) + b.w \div 2,
          ((r[2] * (canvas.height - b.h * 2)) \div 1000) + b.h \div 2)

\* Shuffle without the filter on pinned: every box gets a random position
ShuffleAll(bs, rnd) ==
    [i \in 1..Len(bs) |->
        [bs[i] EXCEPT !.x = randPoint(bs[i], rnd[i]).x,
                      !.y = randPoint(bs[i], rnd[i]).y]]

\* the shuffle button: every box that is not pinned gets a random position;
\* rnd gives the Math.random() values, in the order of the calls
Shuffle(bs, rnd) ==
    [i \in 1..Len(bs) |->
        LET k == Cardinality({j \in 1..i : ~bs[j].pinned})
        IN  IF bs[i].pinned THEN bs[i]
            ELSE [bs[i] EXCEPT !.x = randPoint(bs[i], rnd[k]).x,
                               !.y = randPoint(bs[i], rnd[k]).y]]

\* pointer up while dragging
UpDragging ==
    /\ dragging # Undefined
    /\ dragging' = Undefined
    /\ UNCHANGED <<boxes, links, activeTool, phantomBox, hovered, draggingStart,
                   linkAction, btnHovered, btnPressed, lastTime, canvas, frames>>

\* UpLinkAction with the gesture cleared only when it changed the link table
UpLinkActionKeeps(p) ==
    /\ dragging = Undefined
    /\ linkAction # Undefined
    /\ LET la == Val(linkAction)
           bs == SetField(boxes, la.start, "hovered", FALSE)
       IN  /\ links' = LinkLoop(links, bs, 0, la.start, la.add, p)
           /\ boxes' = bs
    /\ Len(links') <= MaxLinks
    /\ linkAction' = IF links' = links THEN linkAction ELSE Undefined
    /\ UNCHANGED <<activeTool, phantomBox, hovered, dragging, draggingStart,
                   btnHovered, btnPressed, lastTime, canvas, frames>>

\* pointer up at p during a link gesture
UpLinkAction(p) ==
    /\ dragging = Undefined
    /\ linkAction # Undefined
    /\ LET la == Val(linkAction)
           bs == SetField(boxes, la.start, "hovered", FALSE)
       IN  /\ links' = LinkLoop(links, bs, 0, la.start, la.add, p)
           /\ boxes' = bs
    /\ Len(links') <= MaxLinks
    /\ linkAction' = Undefined
    /\ UNCHANGED <<activeTool, phantomBox, hovered, dragging, draggingStart,
                   btnHovered, btnPressed, lastTime, canvas, frames>>

\* UpToolButton going on to the add tool's promotion after the button's action
UpToolButtonPromotes(p) ==
    /\ dragging = Undefined /\ linkAction = Undefined
    /\ ButtonAt(p) \in 1..4
    /\ activeTool' = Tools[ButtonAt(p)]
    /\ btnPressed' = [i \in 1..5 |-> i = ButtonAt(p)]
    /\ IF activeTool = "add" /\ phantomBox # Undefined /\ Len(boxes) < MaxBoxes
       THEN /\ boxes' = Append(boxes, Val(phantomBox))
            /\ phantomBox' = Undefined
       ELSE UNCHANGED <<boxes, phantomBox>>
    /\ UNCHANGED <<links, hovered, dragging, draggingStart,
                   linkAction, btnHovered, lastTime, canvas, frames>>

\* pointer up on one of the four tool buttons
UpToolButton(p) ==
    /\ dragging = Undefined /\ linkAction = Undefined
    /\ ButtonAt(p) \in 1..4
    /\ activeTool' = Tools[ButtonAt(p)]
    /\ btnPressed' = [i \in 1..5 |-> i = ButtonAt(p)]
    /\ UNCHANGED <<boxes, links, phantomBox, hovered, dragging, draggingStart,
                   linkAction, btnHovered, lastTime, canvas, frames>>

\* pointer up on the shuffle button
UpShuffleButton(p) ==
    /\ dragging = Undefined /\ linkAction = Undefined
    /\ ButtonAt(p) = 5
    /\ \E rnd \in RandSeqs : boxes' = Shuffle(boxes, rnd)
    /\ UNCHANGED <<links, activeTool, phantomBox, hovered, dragging, draggingStart,
                   linkAction, btnHovered, btnPressed, lastTime, canvas, frames>>

\* UpCanvas with unshift in place of push: the preview box goes to the front
UpCanvasPrepends(p) ==
    /\ dragging = Undefined /\ linkAction = Undefined
    /\ ButtonAt(p) = 0
    /\ IF activeTool = "add" /\ phantomBox # Undefined
       THEN /\ Len(boxes) < MaxBoxes
            /\ boxes' = <<Val(phantomBox)>> \o boxes
            /\ phantomBox' = Undefined
       ELSE UNCHANGED <<boxes, phantomBox>>
    /\ UNCHANGED <<links, activeTool, hovered, dragging, draggingStart,
                   linkAction, btnHovered, btnPressed, lastTime, canvas, frames>>

\* pointer up off the buttons: the add tool puts its preview box in the table
UpCanvas(p) ==
    /\ dragging = Undefined /\ linkAction = Undefined
    /\ ButtonAt(p) = 0
    /\ IF activeTool = "add" /\ phantomBox # Undefined
       THEN /\ Len(boxes) < MaxBoxes
            /\ boxes' = Append(boxes, Val(phantomBox))
            /\ phantomBox' = Undefined
       ELSE UNCHANGED <<boxes, phantomBox>>
    /\ UNCHANGED <<links, activeTool, hovered, dragging, draggingStart,
                   linkAction, btnHovered, btnPressed, lastTime, canvas, frames>>

onPointerUp(p) ==
    \/ UpDragging
    \/ UpLinkAction(p)
    \/ UpToolButton(p)
    \/ UpShuffleButton(p)
    \/ UpCanvas(p)

\* --------------------------------------------------------- onPointerMove

\* MoveDragging without the grab offset: the box's corner goes to the pointer
MoveDraggingNoOffset(p) ==
    /\ dragging # Undefined
    /\ boxes' = SetField(SetField(boxes, Val(dragging), "x", p.x), Val(dragging), "y", p.y)
    /\ UNCHANGED <<links, activeTool, phantomBox, hovered, dragging, draggingStart,
                   linkAction, btnHovered, btnPressed, lastTime, canvas, frames>>

\* pointer move while dragging: the dragged box follows the pointer
MoveDragging(p) ==
    /\ dragging # Undefined
    /\ boxes' = SetField(SetField(boxes, Val(dragging), "x", p.x - draggingStart.x),
                         Val(dragging), "y", p.y - draggingStart.y)
    /\ UNCHANGED <<links, activeTool, phantomBox, hovered, dragging, draggingStart,
                   linkAction, btnHovered, btnPressed, lastTime, canvas, frames>>

\* the preview box of the add tool, centred on the pointer
PhantomAt(ph, p) == [ph EXCEPT !.x = p.x - ph.w \div 2, !.y = p.y - ph.h \div 2]

\* pointer move with the add tool: the preview box is made if there is none
MoveAdd(p) ==
    /\ dragging = Undefined
    /\ activeTool = "add"
    /\ btnHovered' = [i \in 1..5 |-> contains(BUTTONS[i], p)]
    /\ IF phantomBox = Undefined
       THEN \E sz \in PhantomSizes :
                phantomBox' = Some(PhantomAt(Box(FreshId, sz[1], sz[2], NextLabel(boxes)), p))
       ELSE phantomBox' = Some(PhantomAt(Val(phantomBox), p))
    /\ UNCHANGED <<boxes, links, activeTool, hovered, dragging, draggingStart,
                   linkAction, btnPressed, lastTime, canvas, frames>>

\* the first box that contains p, as an array index, -1 when none does
FirstHit(bs, p) ==
    IF \E i \in 1..Len(bs) : contains(bs[i], p)
    THEN (CHOOSE i \in 1..Len(bs) :
              contains(bs[i], p) /\ \A j \in 1..(i - 1) : ~contains(bs[j], p)) - 1
    ELSE -1

\* the hover pass of pointer move: this.hovered is cleared, then the first
\* box under the pointer is hovered unless it starts the link gesture
HoverPass(bs, hov, la, p) ==
    LET cleared == IF hov # Undefined THEN SetField(bs, Val(hov), "hovered", FALSE) ELSE bs
        hit     == FirstHit(cleared, p)
    IN  IF hit >= 0 /\ (la = Undefined \/ Val(la).start # At(cleared, hit).id)
        THEN [boxes |-> SetField(cleared, At(cleared, hit).id, "hovered", TRUE),
              hovered |-> Some(At(cleared, hit).id)]
        ELSE [boxes |-> cleared, hovered |-> Undefined]

\* pointer move with another tool: a preview box is dropped, hover is updated
MoveHover(p) ==
    /\ dragging = Undefined
    /\ activeTool # "add"
    /\ btnHovered' = [i \in 1..5 |-> contains(BUTTONS[i], p)]
    /\ phantomBox' = Undefined
    /\ LET r == HoverPass(boxes, hovered, linkAction, p)
       IN  boxes' = r.boxes /\ hovered' = r.hovered
    /\ UNCHANGED <<links, activeTool, dragging, draggingStart, linkAction,
                   btnPressed, lastTime, canvas, frames>>

onPointerMove(p) ==
    \/ MoveDragging(p)
    \/ MoveAdd(p)
    \/ MoveHover(p)

\* ------------------------------------------------------------------ draw

GRAVITY_FORCE == 120

INTER_NODE_REPULSION == 12

\* LINK_ATTRACTION is 1 / 8000
LINK_ATTRACTION_INV == 8000

Vec(vx, vy) == [x |-> vx, y |-> vy]

VecNaN(v) == IsNaN(v.x) \/ IsNaN(v.y)

VecAdd(u, v) == Vec(Add(u.x, v.x), Add(u.y, v.y))

\* Math.sqrt(vec.x ** 2 + vec.y ** 2) in tenths of a pixel
Len10(v) == ISqrt(100 * (v.x * v.x + v.y * v.y))

\* GRAVITY: norm * GRAVITY_FORCE * centreFalloff, with norm = vec / len and
\* centreFalloff = Math.min(1, len / ((w + h) / 2)).  At len = 0 norm is 0/0.
Gravity(box, screenCentre) ==
    LET c      == centre(box)
        vec    == Vec(Sub(screenCentre.x, c.x), Sub(screenCentre.y, c.y))
        len    == Len10(vec)
        size   == 10 * ((box.w + box.h) \div 2)
        fall   == IF len < size THEN len ELSE size
    IN  IF VecNaN(vec) THEN Vec(NaN, NaN)
        ELSE Vec(Div(vec.x * GRAVITY_FORCE * 10 * fall, len * size),
                 Div(vec.y * GRAVITY_FORCE * 10 * fall, len * size))

\* INTER-NODE REPULSION of box from other: norm * falloff, with
\* falloff = ((box.mass + other.mass) / 2) * (INTER_NODE_REPULSION / len) ** 2.
\* At len = 0 norm is 0/0 and falloff is infinite: the product is NaN.
Repulsion(box, other) ==
    LET c    == centre(box)
        oc   == centre(other)
        vec  == Vec(Sub(c.x, oc.x), Sub(c.y, oc.y))
        len  == Len10(vec)
        len2 == vec.x * vec.x + vec.y * vec.y
        avg  == (mass(box) + mass(other)) \div 2
        falloff == (avg * INTER_NODE_REPULSION * INTER_NODE_REPULSION * 10) \div len2
    IN  IF VecNaN(vec) \/ len2 = 0 THEN Vec(NaN, NaN)
        ELSE Vec(Div(vec.x * falloff, len), Div(vec.y * falloff, len))

\* LINK ATTRACTION of box towards other
Attraction(box, other) ==
    LET c   == centre(box)
        oc  == centre(other)
        avg == (mass(box) + mass(other)) \div 2
    IN  Vec(Div(IF IsNaN(Sub(oc.x, c.x)) THEN NaN ELSE Sub(oc.x, c.x) * avg, LINK_ATTRACTION_INV),
            Div(IF IsNaN(Sub(oc.y, c.y)) THEN NaN ELSE Sub(oc.y, c.y) * avg, LINK_ATTRACTION_INV))

\* linked(box): the boxes at the other end of the links of box i, in link order
linked(bs, ls, i) ==
    LET mine == SelectSeq(ls, LAMBDA l : l[1] = i \/ l[2] = i)
    IN  [k \in 1..Len(mine) |-> IF mine[k][1] = i THEN At(bs, mine[k][2]) ELSE At(bs, mine[k][1])]

RECURSIVE VecSum(_)
VecSum(vs) == IF vs = <<>> THEN Vec(0, 0) ELSE VecAdd(Head(vs), VecSum(Tail(vs)))

\* Force without the test of box.pinned
ForceOnPinnedToo(bs, ls, i, screenCentre) ==
    LET box    == At(bs, i)
        others == SelectSeq(bs, LAMBDA o : o.id # box.id)
        near   == linked(bs, ls, i)
    IN  VecAdd(Gravity(box, screenCentre),
               VecAdd(VecSum([k \in 1..Len(others) |-> Repulsion(box, others[k])]),
                      VecSum([k \in 1..Len(near) |-> Attraction(box, near[k])])))

\* the force on box i: nothing for a pinned box
Force(bs, ls, i, screenCentre) ==
    LET box    == At(bs, i)
        others == SelectSeq(bs, LAMBDA o : o.id # box.id)
        near   == linked(bs, ls, i)
    IN  IF box.pinned THEN Vec(0, 0)
        ELSE VecAdd(Gravity(box, screenCentre),
                    VecAdd(VecSum([k \in 1..Len(others) |-> Repulsion(box, others[k])]),
                           VecSum([k \in 1..Len(near) |-> Attraction(box, near[k])])))

\* force * delta for delta = ms / 1000, truncated to whole pixels
TimesDelta(f, ms) ==
    IF IsNaN(f) THEN NaN
    ELSE Sign(f) * Sign(ms)
         * ((Abs(f) \div 1000) * Abs(ms) + ((Abs(f) % 1000) * Abs(ms)) \div 1000)

\* the four Math.max / Math.min lines: the position kept within half a box
\* of the canvas
Clamp(v, size, extent) == MathMin(MathMax(v, -(size \div 2)), extent - size \div 2)

\* box i moved by its force and clamped
MoveBox(bs, ls, i, ms, cv) ==
    LET box   == At(bs, i)
        force == Force(bs, ls, i, centre([x |-> 0, y |-> 0, w |-> cv.width, h |-> cv.height]))
    IN  [bs EXCEPT ![i + 1] =
            [box EXCEPT !.x = Clamp(Add(box.x, TimesDelta(force.x, ms)), box.w, cv.width),
                        !.y = Clamp(Add(box.y, TimesDelta(force.y, ms)), box.h, cv.height)]]

\* for (let i = this.boxes.length - 1; i >= 0; i--): each box sees the new
\* positions of the boxes after it
RECURSIVE DrawLoop(_, _, _, _, _)
DrawLoop(bs, ls, i, ms, cv) ==
    IF i < 0 THEN bs ELSE DrawLoop(MoveBox(bs, ls, i, ms, cv), ls, i - 1, ms, cv)

\* draw with the preview box among the boxes that repel
drawPhantomRepels(timestamp) ==
    /\ boxes' = IF phantomBox = Undefined
                THEN DrawLoop(boxes, links, Len(boxes) - 1, timestamp - lastTime, canvas)
                ELSE SubSeq(DrawLoop(Append(boxes, Val(phantomBox)), links, Len(boxes),
                                     timestamp - lastTime, canvas),
                            1, Len(boxes))
    /\ lastTime' = timestamp
    /\ UNCHANGED <<links, activeTool, phantomBox, hovered, dragging, draggingStart,
                   linkAction, btnHovered, btnPressed, canvas>>

\* draw(timestamp): the boxes are moved, from the last to the first; the
\* preview box is drawn only
draw(timestamp) ==
    /\ boxes' = DrawLoop(boxes, links, Len(boxes) - 1, timestamp - lastTime, canvas)
    /\ lastTime' = timestamp
    /\ UNCHANGED <<links, activeTool, phantomBox, hovered, dragging, draggingStart,
                   linkAction, btnHovered, btnPressed, canvas>>

\* one animation frame
mainLoop(timestamp) ==
    /\ frames < MaxFrames
    /\ frames' = frames + 1
    /\ draw(timestamp)
    /\ last' = "draw"
    /\ UNCHANGED steps

\* ------------------------------------------------------------------ spec

\* a pointer event that leaves the scene as it was is not counted
Counted(handler) ==
    /\ steps < MaxSteps
    /\ steps' = IF scene' = scene THEN steps ELSE steps + 1
    /\ last' = IF scene' = scene THEN last ELSE handler

PointerDown == \E shiftKey \in BOOLEAN, p \in DownPoints : onPointerDown(shiftKey, p) /\ Counted("onPointerDown")

PointerMove == \E p \in MovePoints : onPointerMove(p) /\ Counted("onPointerMove")

PointerUp == \E p \in UpPoints : onPointerUp(p) /\ Counted("onPointerUp")

Frame == \E d \in Deltas : mainLoop(lastTime + d)

Next == PointerDown \/ PointerMove \/ PointerUp \/ Frame

Spec == Init /\ [][Next]_vars

\* ------------------------------------------------- the add tool's labels

\* Labels of box tables the scene gets to with the add and the remove tool:
\* every box removed; 18 boxes added (i..z) and all but a and z removed; a
\* table whose last box is in the middle of the alphabet.
LabelTables == { <<>>, <<"a", "z">>, <<"c", "y">> }

\* The scene with the add tool chosen, a box table with the labels of
\* LabelTables, no link, no gesture and no preview box.
InitLabels ==
    /\ canvas \in CanvasSizes
    /\ \E lay \in Layouts, labels \in LabelTables :
           boxes = [i \in 1..Len(labels) |->
                       [Box(i, BOXES[i].w, BOXES[i].h, labels[i])
                            EXCEPT !.x = lay[i].x, !.y = lay[i].y]]
    /\ links = <<>>
    /\ activeTool = "add"
    /\ phantomBox = Undefined
    /\ hovered = Undefined
    /\ dragging = Undefined
    /\ draggingStart = Point(0, 0)
    /\ linkAction = Undefined
    /\ btnHovered = [i \in 1..5 |-> FALSE]
    /\ btnPressed = [i \in 1..5 |-> i = 3]
    /\ lastTime = 0
    /\ frames = 0
    /\ steps = 0
    /\ last = "constructor"

SpecLabels == InitLabels /\ [][Next]_vars

\* ---------------------------------------------------------------- claims

Idle == dragging = Undefined /\ linkAction = Undefined

\* the link l joins the boxes at indices a and b, in either orientation
SamePair(l, a, b) == (l[1] = a /\ l[2] = b) \/ (l[1] = b /\ l[2] = a)

Rect(b) == [x |-> b.x, y |-> b.y, w |-> b.w, h |-> b.h]

\* x in [-w/2, canvasWidth - w/2] and y in [-h/2, canvasHeight - h/2]
InClampRange(b) ==
    /\ ~IsNaN(b.x) /\ ~IsNaN(b.y)
    /\ -(b.w \div 2) <= b.x /\ b.x <= canvas.width - b.w \div 2
    /\ -(b.h \div 2) <= b.y /\ b.y <= canvas.height - b.h \div 2

\* the same, off the edges of the range
InsideClampRange(b) ==
    /\ ~IsNaN(b.x) /\ ~IsNaN(b.y)
    /\ -(b.w \div 2) < b.x /\ b.x < canvas.width - b.w \div 2
    /\ -(b.h \div 2) < b.y /\ b.y < canvas.height - b.h \div 2

\* the link table the scene starts with
InitialLinks == SelectSeq(LINKS, LAMBDA l : l[1] < InitBoxes /\ l[2] < InitBoxes)

(* C1: after any sequence of pointer events the link table never holds two
   entries for the same unordered pair of boxes (so a link-add gesture
   between two linked boxes leaves the table as it is). *)
C1_NoDuplicateLinks ==
    \A i, j \in 1..Len(links) :
        i < j => ~SamePair(links[i], links[j][1], links[j][2])

(* C2: a remove-tool pointer-down on the box at index k (the first box under
   the pointer) leaves exactly the links not incident to k, once each and in
   their order, with every endpoint below k unchanged and every endpoint
   above k decremented by one, so that each kept link still joins the same
   two box objects. *)
C2_RemoveRenumbers ==
    [][\A p \in DownPoints, shiftKey \in BOOLEAN :
        ( /\ activeTool = "remove" /\ Idle
          /\ FirstHit(boxes, p) >= 0
          /\ onPointerDown(shiftKey, p) )
        => LET k    == FirstHit(boxes, p)
               kept == SelectSeq(links, LAMBDA l : l[1] # k /\ l[2] # k)
           IN  /\ Len(links') = Len(kept)
               /\ \A i \in 1..Len(kept) : \A e \in 1..2 :
                      /\ links'[i][e] = IF kept[i][e] < k THEN kept[i][e] ELSE kept[i][e] - 1
                      /\ links'[i][e] < Len(boxes')
                      /\ At(boxes', links'[i][e]).id = At(boxes, kept[i][e]).id
               /\ \A i \in 1..Len(boxes') : boxes'[i].id # At(boxes, k).id
      ]_vars

(* C3 as amended: a frame leaves the bounds (x, y, w, h) of every pinned box
   whose position is within the clamp range as they are. *)
C3_PinnedInRangeKeepsBounds ==
    [][frames' # frames
         => \A i \in 1..Len(boxes) :
                (boxes[i].pinned /\ InClampRange(boxes[i]))
                => Rect(boxes'[i]) = Rect(boxes[i])
      ]_vars

(* C3 as stated: a frame leaves the bounds of every pinned box as they are,
   wherever a drag has left the box. *)
C3_PinnedKeepsBounds ==
    [][frames' # frames
         => \A i \in 1..Len(boxes) :
                boxes[i].pinned => Rect(boxes'[i]) = Rect(boxes[i])
      ]_vars

\* C3 witness: a frame has just run over a pinned box that lies inside the range
C3_PinnedAfterFrame ==
    /\ last = "draw"
    /\ \E i \in 1..Len(boxes) : boxes[i].pinned /\ InsideClampRange(boxes[i])

(* C4: no frame ever stores a non-finite coordinate in a box's position. *)
C4_FiniteCoordinates ==
    \A i \in 1..Len(boxes) : ~IsNaN(boxes[i].x) /\ ~IsNaN(boxes[i].y)

(* C5: after any sequence of pointer events the link table never holds a
   self-link (i, i). *)
C5_NoSelfLinks == \A i \in 1..Len(links) : links[i][1] # links[i][2]

\* C5 witness: a link gesture has just ended and the link table has grown
C5_LinkAdded ==
    /\ last = "onPointerUp"
    /\ activeTool = "link"
    /\ linkAction = Undefined
    /\ Len(links) > Len(InitialLinks)

(* C6: a link-remove gesture from box A released over another box B (the
   first box under the pointer) removes the link between A and B, stored as
   (A,B) or as (B,A), and leaves every other link as it is and in order; with
   no link between A and B the link table is unchanged. *)
C6_RemoveGestureRemovesOnePair ==
    [][\A p \in UpPoints :
        ( /\ dragging = Undefined /\ linkAction # Undefined
          /\ ~Val(linkAction).add
          /\ FirstHit(boxes, p) >= 0
          /\ At(boxes, FirstHit(boxes, p)).id # Val(linkAction).start
          /\ onPointerUp(p) )
        => links' = SelectSeq(links, LAMBDA l :
                        ~SamePair(l, IndexOf(boxes, Val(linkAction).start), FirstHit(boxes, p)))
      ]_vars

(* C7: a hand-tool pointer-down without shift on box X (the first box under
   the pointer) pins X and starts dragging X; the pointer-up that follows
   clears the drag and leaves X pinned where it is; and a pinned box stays
   pinned until a shift-click of the hand tool on it. *)
C7_DragPinsAndStaysPinned ==
    [][ /\ \A p \in DownPoints :
            ( /\ activeTool = "hand" /\ Idle
              /\ FirstHit(boxes, p) >= 0
              /\ onPointerDown(FALSE, p) )
            => /\ dragging' = Some(At(boxes, FirstHit(boxes, p)).id)
               /\ At(boxes', FirstHit(boxes, p)).pinned
        /\ \A p \in UpPoints :
            (dragging # Undefined /\ onPointerUp(p))
            => /\ dragging' = Undefined
               /\ LET i == IndexOf(boxes, Val(dragging))
                  IN  At(boxes', i).pinned /\ Rect(At(boxes', i)) = Rect(At(boxes, i))
        /\ \A i \in 1..Len(boxes) : \A j \in 1..Len(boxes') :
            ( /\ boxes[i].pinned
              /\ boxes'[j].id = boxes[i].id
              /\ ~( /\ activeTool = "hand" /\ Idle
                    /\ \E p \in DownPoints :
                           FirstHit(boxes, p) = i - 1 /\ onPointerDown(TRUE, p) ) )
            => boxes'[j].pinned
      ]_vars

(* C8: right after every frame every box, pinned or not, has x in
   [-w/2, canvasWidth - w/2] and y in [-h/2, canvasHeight - h/2]. *)
C8_ClampedAfterFrame ==
    [][frames' # frames => \A i \in 1..Len(boxes') : InClampRange(boxes'[i])]_vars

(* C9: dragging and linkAction are never both set. *)
C9_DragOrLinkNotBoth == ~(dragging # Undefined /\ linkAction # Undefined)

\* C9 witness: a pointer-down has just started a link gesture
C9_LinkGestureStarted ==
    last = "onPointerDown" /\ linkAction # Undefined /\ dragging = Undefined

(* C10: a preview box exists only while the tool is add. *)
C10_PreviewOnlyWithAddTool == phantomBox # Undefined => activeTool = "add"

\* the objects of the box table that carry the hovered flag
HoveredBoxes == {i \in 1..Len(boxes) : boxes[i].hovered}

(* C11: in every state with no drag and no link gesture active at most one
   box of the table has its hovered flag set. *)
C11_AtMostOneHovered == Idle => Cardinality(HoveredBoxes) <= 1

(* C12: the shuffle button changes only the positions of the boxes that are
   not pinned: the bounds of every pinned box, the size, label, pinned and
   hovered flag of every box, the boxes in the table and their order, the
   links, the tool, the drag, the link gesture and the preview box are as
   before. *)
C12_ShuffleMovesUnpinnedOnly ==
    [][\A p \in UpPoints :
        (Idle /\ ButtonAt(p) = 5 /\ onPointerUp(p))
        => /\ Len(boxes') = Len(boxes)
           /\ \A i \in 1..Len(boxes) :
                  /\ boxes[i].pinned => boxes'[i] = boxes[i]
                  /\ boxes'[i] = [boxes[i] EXCEPT !.x = boxes'[i].x, !.y = boxes'[i].y]
           /\ UNCHANGED <<links, activeTool, btnPressed, phantomBox, hovered,
                          dragging, draggingStart, linkAction>>
      ]_vars

\* C12 witness: before any frame, with a pinned box in the table, a
\* pointer-up has moved a box that is not pinned: the shuffle has run
C12_ShuffledWithPinned ==
    /\ frames = 0
    /\ last = "onPointerUp"
    /\ \E i \in 1..Len(boxes) : boxes[i].pinned
    /\ \E lay \in Layouts : \E i \in 1..Len(boxes) :
           /\ ~boxes[i].pinned
           /\ Point(boxes[i].x, boxes[i].y) # lay[boxes[i].id]

(* C13: a pointer-down of the hand or the link tool acts on the first box of
   the table that contains the pointer and on no other: that box is the one
   dragged (hand tool, no shift) or the start of the link gesture (link
   tool), and no other box has its pinned or hovered flag changed. *)
C13_DownActsOnFirstHitOnly ==
    [][\A p \in DownPoints, shiftKey \in BOOLEAN :
        ( /\ activeTool \in {"hand", "link"} /\ Idle
          /\ FirstHit(boxes, p) >= 0
          /\ onPointerDown(shiftKey, p) )
        => LET k == FirstHit(boxes, p)
           IN  /\ (activeTool = "hand" /\ ~shiftKey) => dragging' = Some(At(boxes, k).id)
               /\ activeTool = "link"
                      => linkAction' = Some([start |-> At(boxes, k).id, add |-> ~shiftKey])
               /\ Len(boxes') = Len(boxes)
               /\ \A i \in 1..Len(boxes) :
                      i # k + 1 => /\ boxes'[i].pinned = boxes[i].pinned
                                   /\ boxes'[i].hovered = boxes[i].hovered
      ]_vars

(* C14: a pointer-down of the remove tool over at least one box removes one
   box, the first of the table that contains the pointer, and the links of
   that box: the table is one box shorter even when several boxes contain
   the pointer; over no box nothing changes. *)
C14_RemoveTakesOneBox ==
    [][\A p \in DownPoints, shiftKey \in BOOLEAN :
        (activeTool = "remove" /\ Idle /\ onPointerDown(shiftKey, p))
        => LET k == FirstHit(boxes, p)
           IN  IF k >= 0
               THEN /\ Len(boxes') = Len(boxes) - 1
                    /\ boxes' = Splice(boxes, k)
                    /\ links' = RemoveLinks(links, k)
               ELSE UNCHANGED <<boxes, links>>
      ]_vars

(* C15: a pointer-down while a drag or a link gesture is active changes
   nothing: the boxes with their flags, the links, the tool, the drag (box
   and grab offset), the link gesture and the rest of the scene are as
   before, with any tool and with or without shift. *)
C15_DownIgnoredDuringGesture ==
    [][\A p \in DownPoints, shiftKey \in BOOLEAN :
        (~Idle /\ onPointerDown(shiftKey, p)) => UNCHANGED scene
      ]_vars

\* C15 witness: a gesture is active over a box and a further pointer-down
\* over that box can be delivered
C15_GestureActive ==
    /\ ~Idle
    /\ steps < MaxSteps
    /\ \E p \in DownPoints : FirstHit(boxes, p) >= 0

(* C16: a shift pointer-down of the hand tool over a box toggles the pinned
   flag of that box (the first under the pointer) and starts no drag: the
   position of the box, every other box and the rest of the scene are as
   before, and a second such click gives back the scene of before the first. *)
C16_ShiftClickTogglesPin ==
    [][\A p \in DownPoints :
        ( /\ activeTool = "hand" /\ Idle
          /\ FirstHit(boxes, p) >= 0
          /\ onPointerDown(TRUE, p) )
        => LET k == FirstHit(boxes, p) + 1
           IN  /\ dragging' = Undefined
               /\ boxes' = [boxes EXCEPT ![k] = [@ EXCEPT !.pinned = ~boxes[k].pinned]]
               /\ UNCHANGED <<links, hovered, draggingStart, linkAction, activeTool, phantomBox>>
               /\ PointerDownResult(PointerDownResult(Scene, "hand", TRUE, p),
                                    "hand", TRUE, p) = Scene
      ]_vars

\* C16 witness: the hand tool's pointer-down has pinned a box without
\* starting a drag
C16_PinnedByShiftClick ==
    /\ last = "onPointerDown"
    /\ activeTool = "hand"
    /\ Idle
    /\ \E i \in 1..Len(boxes) : boxes[i].pinned

(* C17: with the add tool and a preview box, a pointer-up off the buttons
   appends the preview box at the end of the box table (one box more, the
   others at their indices), leaves the links as they are, so that the new
   box has no linked box, and clears the preview; a pointer-down with the
   add tool changes no box, no link and no gesture state. *)
C17_PointerUpPromotesPreview ==
    [][ /\ \A p \in UpPoints :
            ( /\ activeTool = "add" /\ phantomBox # Undefined
              /\ ButtonAt(p) = 0
              /\ onPointerUp(p) )
            => /\ boxes' = Append(boxes, Val(phantomBox))
               /\ links' = links
               /\ linked(boxes', links', Len(boxes') - 1) = <<>>
               /\ phantomBox' = Undefined
        /\ \A p \in DownPoints, shiftKey \in BOOLEAN :
            (activeTool = "add" /\ onPointerDown(shiftKey, p)) => UNCHANGED scene
      ]_vars

\* C17 witness: a pointer-up of the add tool has just put a box in the table
C17_PreviewPromoted ==
    /\ last = "onPointerUp"
    /\ activeTool = "add"
    /\ phantomBox = Undefined
    /\ Len(boxes) = InitBoxes + 1

(* C18: with no gesture active, a pointer-up inside a button does what the
   button does and nothing else (with the add tool and a preview box the
   preview is not put in the table); a pointer-up that ends a drag or a link
   gesture does what no button does, on a button too. *)
C18_ButtonFirstGestureBefore ==
    [][\A p \in UpPoints : onPointerUp(p) =>
        /\ (Idle /\ ButtonAt(p) \in 1..4)
               => /\ activeTool' = Tools[ButtonAt(p)]
                  /\ btnPressed' = [i \in 1..5 |-> i = ButtonAt(p)]
                  /\ UNCHANGED <<boxes, links, phantomBox, hovered, dragging,
                                 draggingStart, linkAction>>
        /\ (Idle /\ ButtonAt(p) = 5)
               => /\ \E rnd \in RandSeqs : boxes' = Shuffle(boxes, rnd)
                  /\ UNCHANGED <<links, phantomBox, hovered, dragging, draggingStart,
                                 linkAction, activeTool, btnPressed>>
        /\ ~Idle
               => /\ UNCHANGED <<activeTool, btnPressed, phantomBox>>
                  /\ Len(boxes') = Len(boxes)
                  /\ \A i \in 1..Len(boxes) : Rect(boxes'[i]) = Rect(boxes[i])
      ]_vars

\* C18 witness: a pointer-up on a button has just acted while the add tool's
\* preview box was there, and the preview box is still a preview
C18_ButtonWithPreview ==
    /\ last = "onPointerUp"
    /\ phantomBox # Undefined
    /\ Len(boxes) = InitBoxes

(* C19: right after every pointer-up neither a drag nor a link gesture is
   active, whatever the link gesture found under the pointer and whatever it
   did to the link table. *)
C19_IdleAfterPointerUp ==
    [][\A p \in UpPoints :
        onPointerUp(p) => (dragging' = Undefined /\ linkAction' = Undefined)
      ]_vars

\* C19 witness: a link gesture has just ended by removing a link
C19_LinkGestureEnded ==
    /\ last = "onPointerUp"
    /\ activeTool = "link"
    /\ Idle
    /\ Len(boxes) = InitBoxes
    /\ Len(links) < Len(InitialLinks)

(* C20: the pointer-up that ends a link gesture resolves against one box at
   most, the first of the table that contains the pointer: the links that do
   not join the start box and that box are as before; when that box is the
   start box, or no box contains the pointer, the link table is as before;
   and a gesture begun without shift removes no link, one begun with shift
   adds none. *)
C20_LinkGestureOneTarget ==
    [][\A p \in UpPoints :
        (dragging = Undefined /\ linkAction # Undefined /\ onPointerUp(p))
        => LET s == IndexOf(boxes, Val(linkAction).start)
               t == FirstHit(boxes, p)
           IN  /\ (t < 0 \/ t = s) => links' = links
               /\ SelectSeq(links', LAMBDA l : ~SamePair(l, s, t))
                      = SelectSeq(links, LAMBDA l : ~SamePair(l, s, t))
               /\ Val(linkAction).add => Len(links') >= Len(links)
               /\ ~Val(linkAction).add => Len(links') <= Len(links)
      ]_vars

\* the letter after the last box's label, a after z and for an empty table
SuccessorOfLast(bs) ==
    IF Len(bs) = 0 THEN "a"
    ELSE LET i == CHOOSE k \in 1..26 : Alphabet[k] = bs[Len(bs)].text
         IN  IF i = 26 THEN "a" ELSE Alphabet[i + 1]

(* C21: the preview box made by a pointer-move of the add tool is labelled
   with the letter that follows, in a..z with a after z, the label of the
   last box of the table, and with a when the table is empty; the label
   looks at the last box only, so a table with two boxes of one label can be
   reached. *)
C21_LabelFollowsLastBox ==
    [][\A p \in MovePoints :
        (activeTool = "add" /\ phantomBox = Undefined /\ onPointerMove(p))
        => /\ phantomBox' # Undefined
           /\ Val(phantomBox').text = SuccessorOfLast(boxes)
      ]_vars

\* C21 witness: the add tool has put a box in the table whose label another
\* box of the table carries
C21_TwoBoxesOneLabel ==
    /\ last = "onPointerUp"
    /\ \E i, j \in 1..Len(boxes) : i < j /\ j = Len(boxes) /\ boxes[i].text = boxes[j].text

(* C22: a pointer-move during a drag puts the dragged box at the pointer
   minus the grab offset taken at the pointer-down and changes nothing else:
   no other box, no hovered flag of a box or a button, no preview box, no
   link, not the tool. *)
C22_DragMoveOnlyMovesDragged ==
    [][\A p \in MovePoints :
        (dragging # Undefined /\ onPointerMove(p))
        => /\ Len(boxes') = Len(boxes)
           /\ \A i \in 1..Len(boxes) :
                  boxes'[i] = IF boxes[i].id = Val(dragging)
                              THEN [boxes[i] EXCEPT !.x = p.x - draggingStart.x,
                                                    !.y = p.y - draggingStart.y]
                              ELSE boxes[i]
           /\ UNCHANGED <<links, activeTool, phantomBox, hovered, dragging, draggingStart,
                          linkAction, btnHovered, btnPressed>>
      ]_vars

\* C22 witness: a pointer-move has just carried the dragged box away from
\* the place the constructor gave it
C22_DraggedBoxMoved ==
    /\ last = "onPointerMove"
    /\ dragging # Undefined
    /\ \E lay \in Layouts : \E i \in 1..Len(boxes) :
           /\ boxes[i].id = Val(dragging)
           /\ Point(boxes[i].x, boxes[i].y) # lay[boxes[i].id]

(* C23: in every state both ends of every link are indices of the box
   table, 0 <= index < number of boxes, after any adds, removes (a press
   over several boxes too), link gestures and frames. *)
C23_LinkEndsInTable ==
    \A i \in 1..Len(links) : \A e \in 1..2 :
        0 <= links[i][e] /\ links[i][e] < Len(boxes)

\* C23 witness: one press of the remove tool has taken two boxes out and
\* links are left
C23_LinksLeftAfterRemoval ==
    /\ last = "onPointerDown"
    /\ activeTool = "remove"
    /\ Len(boxes) = InitBoxes - 2
    /\ Len(links) > 0

(* C24: the box of an active drag and the start box of an active link
   gesture are in the box table; during a drag the tool is hand and the
   dragged box is pinned. *)
C24_GestureBoxInTable ==
    /\ dragging # Undefined
           => /\ IndexOf(boxes, Val(dragging)) >= 0
              /\ activeTool = "hand"
              /\ At(boxes, IndexOf(boxes, Val(dragging))).pinned
    /\ linkAction # Undefined => IndexOf(boxes, Val(linkAction).start) >= 0

\* C24 witness: a frame has run during a drag
C24_FrameDuringDrag == last = "draw" /\ dragging # Undefined

(* C25: a frame changes the positions of boxes and lastTime only: the boxes
   in the table and their order, the size, label, pinned and hovered flag of
   every box, the links, the tool, the drag, the link gesture and the
   preview box are as before, and the positions are those the forces among
   the boxes of the table give, with or without a preview box. *)
C25_FrameMovesBoxesOnly ==
    [][frames' # frames
        => /\ Len(boxes') = Len(boxes)
           /\ \A i \in 1..Len(boxes) :
                  boxes'[i] = [boxes[i] EXCEPT !.x = boxes'[i].x, !.y = boxes'[i].y]
           /\ boxes' = DrawLoop(boxes, links, Len(boxes) - 1, lastTime' - lastTime, canvas)
           /\ UNCHANGED <<links, activeTool, phantomBox, hovered, dragging, draggingStart,
                          linkAction, btnHovered, btnPressed, canvas>>
      ]_vars

\* C25 witness: a frame has run with a preview box in the scene
C25_FrameWithPreview == last = "draw" /\ phantomBox # Undefined

====
